---- MODULE Spec2Model ----
(***************************************************************************)
(* Model of the live music playback core (src/unnamed/part_000): the       *)
(* session controller state machine, the playback scheduler with its       *)
(* nextStartTime cursor, the output gain stage, and the timers armed with  *)
(* setTimeout.  Time is counted in whole seconds on one clock: the audio   *)
(* clock (audioContext.currentTime) and the timer clock run at the same    *)
(* rate.  A timer runs as a step of its own once the clock has reached its *)
(* due time, and the clock does not move on while a timer is due; a delay  *)
(* shorter than a second (the 100 ms fades) is due within the same second. *)
(* A handler that awaits only the chunk decoder runs as one step.  The     *)
(* chunk decoder (src/unnamed/part_001) is modelled as operators on base64 *)
(* texts, byte sequences and 16-bit samples; a decoded value is kept as    *)
(* the exact fraction sample / 32768.                                      *)
(***************************************************************************)
EXTENDS Integers, Sequences, FiniteSets

\* ------------------------------------------------------------------ bounds
MaxClock == 4           \* the clock stops advancing here
MaxAhead == 3           \* seconds the cursor may lead the clock
MaxSessions == 2        \* remote sessions being opened or open at one time
MaxTimers == 2          \* timers pending at one time
MaxPrompts == 1         \* setWeightedPrompts calls awaiting their outcome
MaxSamples == 4         \* 16-bit samples in the input of a decodeAudioData call
MaxChannels == 2        \* numChannels of a decodeAudioData call
MaxRecovery == 3        \* seconds the clock may go on past MaxClock while the
                        \* recovery from an underrun is being recorded
MaxNodes == 2           \* disconnect() is not called once this many output nodes
                        \* have been created

\* ------------------------------------------------------- program constants
bufferTime == 2         \* seconds of pre-roll
fadeMs == 100           \* the delay of the fade timers of pause() and stop()
msPerSecond == 1000     \* setTimeout delays are milliseconds
int16Scale == 32768     \* the divisor that normalizes a 16-bit sample
byteRange == 256        \* values of one element of the Uint8Array
chunkChannels == 2      \* numChannels the message handler decodes with

\* durations (seconds) of the audio buffers the remote session delivers; a
\* chunk of zero frames yields no buffer (see CreateBuffer)
Durations == {1, 2}

\* the listeners that may be registered
Listeners == {"a", "b"}

\* what a listener that has not been called holds
NoSnapshot == [playbackState |-> "none", isMuted |-> FALSE]

\* a decodeAudioData call that has not been made
NoCall == [raw |-> <<>>, stray |-> 0, numChannels |-> 2,
           out |-> [done |-> FALSE, ok |-> FALSE, data |-> <<>>]]

\* ------------------------------------------------------------ chunk decoder
\* (src/unnamed/part_001)

\* 16-bit sample values the remote session may send
Samples == {-int16Scale, -1, 0, int16Scale - 1}

RECURSIVE SeqsUpTo(_, _)
\* the sequences over S of length at most n
SeqsUpTo(S, n) ==
    IF n = 0 THEN {<<>>}
    ELSE LET shorter == SeqsUpTo(S, n - 1)
         IN  shorter \cup {Append(s, x) : s \in {q \in shorter : Len(q) = n - 1}, x \in S}

\* the two bytes that carry the 16-bit sample s on the wire, low byte first
SampleBytes(s) ==
    LET u == (s + byteRange * byteRange) % (byteRange * byteRange)
    IN  <<u % byteRange, u \div byteRange>>

RECURSIVE ToBytes(_)
\* the binary string of the interleaved samples raw
ToBytes(raw) ==
    IF raw = <<>> THEN <<>> ELSE SampleBytes(Head(raw)) \o ToBytes(Tail(raw))

\* the binary string handed to decodeAudioData: the samples, then stray bytes
BinaryString(raw, stray) == ToBytes(raw) \o [i \in 1..stray |-> 0]

\* new Int16Array(pcm16Data): element k of the signed 16-bit view of the bytes
\* (the byte order of the platform, little-endian)
Int16At(bytes, k) ==
    LET u == bytes[2 * k - 1] + byteRange * bytes[2 * k]
    IN  IF u >= int16Scale THEN u - 2 * int16Scale ELSE u

Int16Array(bytes) == [k \in 1..(Len(bytes) \div 2) |-> Int16At(bytes, k)]

\* a normalization that divides by the largest sample value instead
NormalizeByMax(sample) == [num |-> sample, den |-> int16Scale - 1]

\* sample / 32768.0, kept as the exact fraction it is in a Float32Array
Normalize(sample) == [num |-> sample, den |-> int16Scale]

\* the outcome of a call that threw
Thrown == [done |-> TRUE, ok |-> FALSE, data |-> <<>>]

\* a createBuffer that accepts any length
CreateBufferAny(length) == TRUE

\* audioContext.createBuffer(numChannels, numFrames, sampleRate) succeeds:
\* the length (numFrames truncated to an unsigned long) must not be zero, or
\* it throws NotSupportedError
CreateBuffer(length) == length > 0

\* decodeAudioData(audioData, audioContext, sampleRate, numChannels): the
\* Int16Array constructor throws RangeError on a byte length that is odd;
\* the writes of the copy loop at an index past the buffer's length are
\* ignored, so exactly the complete frames are stored
decodeAudioData(bytes, numChannels) ==
    IF Len(bytes) % 2 # 0 THEN Thrown
    ELSE LET pcm16Samples == Int16Array(bytes)
             length == Len(pcm16Samples) \div numChannels
         IN  IF ~CreateBuffer(length) THEN Thrown
             ELSE [done |-> TRUE, ok |-> TRUE,
                   data |-> [channel \in 1..numChannels |->
                               [i \in 1..length |->
                                  Normalize(pcm16Samples[(i - 1) * numChannels + channel])]]]

\* the characters of a base64 text: a character of the alphabet with its
\* six-bit value, the padding character, or any other character
Sextet(v) == [kind |-> "sextet", v |-> v]
Pad == [kind |-> "pad", v |-> 0]
Other == [kind |-> "other", v |-> 0]

\* the text without its padding: one or two trailing padding characters are
\* removed from a text whose length is a multiple of 4
Unpadded(str) ==
    LET n == Len(str)
    IN  IF n = 0 \/ n % 4 # 0 \/ str[n] # Pad THEN str
        ELSE IF str[n - 1] = Pad THEN SubSeq(str, 1, n - 2)
        ELSE SubSeq(str, 1, n - 1)

RECURSIVE SextetBytes(_)
\* the bytes of a text of alphabet characters: 3 of each 4 characters, 1 of
\* 2 left over, 2 of 3 left over
SextetBytes(str) ==
    LET n == Len(str)
        b1 == str[1].v * 4 + (str[2].v \div 16)
        b2 == (str[2].v % 16) * 16 + (str[3].v \div 4)
        b3 == (str[3].v % 4) * 64 + str[4].v
    IN  IF n < 2 THEN <<>>
        ELSE IF n = 2 THEN <<b1>>
        ELSE IF n = 3 THEN <<b1, b2>>
        ELSE <<b1, b2, b3>> \o SextetBytes(SubSeq(str, 5, n))

\* decode(str) = atob(str): throws on a character outside the alphabet and on
\* a length that leaves one character over
decode(str) ==
    LET s == Unpadded(str)
    IN  IF Len(s) % 4 = 1 \/ \E i \in 1..Len(s) : s[i].kind # "sextet"
        THEN [ok |-> FALSE, bytes |-> <<>>]
        ELSE [ok |-> TRUE, bytes |-> SextetBytes(s)]

\* the message handler obtains a buffer from the chunk data str
HandlerDecodes(str) ==
    /\ decode(str).ok
    /\ decodeAudioData(decode(str).bytes, chunkChannels).ok

\* chunk data the remote session may send: empty, one character, a character
\* outside the alphabet, 3 bytes, 2 bytes (half a stereo frame), and 4 bytes
\* (one stereo frame)
Wires ==
    {<<>>,
     <<Sextet(0)>>,
     <<Other, Sextet(0), Sextet(0), Sextet(0)>>,
     <<Sextet(0), Sextet(0), Sextet(0), Sextet(0)>>,
     <<Sextet(0), Sextet(0), Sextet(0), Pad>>,
     <<Sextet(63), Sextet(63), Sextet(63), Sextet(63), Sextet(63), Sextet(48), Pad, Pad>>}

\* the chunk data from which the handler obtains no buffer
BadWires == {str \in Wires : ~HandlerDecodes(str)}

\* the chunk data that hold no complete stereo frame: text that decodes to an
\* even number of bytes, fewer than one frame of them
ZeroFrameWires ==
    {str \in Wires :
        /\ decode(str).ok
        /\ Len(decode(str).bytes) % 2 = 0
        /\ Len(Int16Array(decode(str).bytes)) \div chunkChannels = 0}

VARIABLES
    apiKey,           \* process.env.API_KEY is set
    session,          \* the handle held: "none" (null), or a handle whose remote
                      \* session is "live" (open) or "dead" (errored or closed)
    pending,          \* remote opens that a connect() call is awaiting
    leaked,           \* open remote sessions whose handle was overwritten
    audioContext,     \* TRUE once the AudioContext exists
    outputNode,       \* id of the current GainNode; 0 before it exists
    gain,             \* the value the current GainNode's gain is heading to
    nextStartTime,
    connectionError,
    state,            \* MusicState: [playbackState, isMuted]
    timers,           \* pending setTimeout callbacks, in the order they run
    clock,            \* audioContext.currentTime
    last,             \* the buffer source scheduled last; start = -1 before any
    run,              \* the run of chunks since the last pre-roll: the clock
                      \* at its first chunk and the seconds scheduled in it
    sent,             \* the last control command sent to the remote session
    promptsPending,   \* setWeightedPrompts calls awaiting their outcome
    stopCalled,       \* stop() ran with a session, and no play() that changed
                      \* anything since
    haltedInLoading,  \* pause()/stop() ran in the pre-roll window, and no play()
                      \* that changed anything since
    track,            \* which history is recorded: "run" (the variable run),
                      \* "halt" (stopCalled and haltedInLoading), "promo" (the
                      \* variable episode, for the first episode), "stale" (the
                      \* variable episode, for the latest episode), "under" (the
                      \* variable episode, for the latest underrun), "nodes"
                      \* (the variable nodes) or "none"
    listeners,        \* the registered state listeners
    heard,            \* for each listener, the snapshot it was called with last
                      \* since it was registered; NoSnapshot when not registered
    episode,          \* a playback episode (from a play() that acted): its phase
                      \* and the clock at its first chunk; or the recovery from
                      \* an underrun: its phase and the clock at the underrun
    codec,            \* a decodeAudioData call: its input and its outcome
    closing,          \* a disconnect() call awaiting audioContext.close(): "no",
                      \* "closed" (the context held is the closed one) or
                      \* "replaced" (a new context was created meanwhile)
    nodes             \* the buffer sources scheduled that have play time left
                      \* (start + dur is after the clock), each with the output
                      \* node it was connected to; recorded under track "nodes"

vars == <<apiKey, session, pending, leaked, audioContext, outputNode, gain,
          nextStartTime, connectionError, state, timers, clock, last, run, sent,
          promptsPending, stopCalled, haltedInLoading, track, listeners, heard,
          episode, codec, closing, nodes>>

\* the variables that no operation of the playback core changes
aside == <<track, listeners, codec>>

\* the state after the module is loaded
InitCore ==
    /\ apiKey \in BOOLEAN
    /\ session = "none"
    /\ pending = 0
    /\ leaked = 0
    /\ audioContext = FALSE
    /\ outputNode = 0
    /\ gain = 1
    /\ nextStartTime = 0
    /\ connectionError = FALSE
    /\ state = [playbackState |-> "stopped", isMuted |-> FALSE]
    /\ timers = <<>>
    /\ clock = 0
    /\ last = [start |-> -1, dur |-> 0, pre |-> FALSE, out |-> 0]
    /\ run = [at |-> 0, sum |-> 0]
    /\ sent = "none"
    /\ promptsPending = 0
    /\ stopCalled = FALSE
    /\ haltedInLoading = FALSE
    /\ listeners = {}
    /\ heard = [l \in Listeners |-> NoSnapshot]
    /\ episode = [phase |-> "none", at |-> 0]
    /\ closing = "no"
    /\ nodes = {}

\* the state after the module is loaded, recording the history h
InitTracking(h) ==
    /\ track = h
    /\ codec = NoCall
    /\ InitCore

\* the state after the module is loaded, with a decodeAudioData call to make
InitDecode ==
    /\ track = "none"
    /\ codec \in [raw : SeqsUpTo(Samples, MaxSamples), stray : {0, 1},
                   numChannels : 1..MaxChannels, out : {NoCall.out}]
    /\ InitCore

Init == InitTracking("none")

\* ----------------------------------------------------------------- helpers

\* updateState({playbackState: p}): a new snapshot
WithPlayback(s, p) == [s EXCEPT !.playbackState = p]

\* an updateState that calls no listener
UpdateStateSilent(s) ==
    /\ state' = s
    /\ UNCHANGED heard

\* updateState: the snapshot s replaces the state and every registered
\* listener is called with it
UpdateState(s) ==
    /\ state' = s
    /\ heard' = [l \in Listeners |-> IF l \in listeners THEN s ELSE heard[l]]

\* the first episode, or the recovery from an underrun, is over: pause(),
\* stop(), a failure or (for the episode) an underrun intervened, or a later
\* play() began another episode
EpisodeOver ==
    IF track \in {"promo", "under"} THEN [phase |-> "over", at |-> 0] ELSE episode

\* the episode record after a play() that acted: the first episode begins,
\* or (track "stale") a new episode begins
EpisodeAtPlay ==
    IF track = "stale" \/ (track = "promo" /\ episode.phase = "none")
    THEN [phase |-> "waiting", at |-> 0]
    ELSE EpisodeOver

\* the episode record after a chunk was scheduled at clock `now` with the
\* cursor at nst: the first chunk of the episode is noted; an underrun ends
\* the first episode and (track "under") begins a recovery
EpisodeAtChunk(nst, now) ==
    IF episode.phase = "waiting" /\ (track = "stale" \/ ~(nst > 0 /\ nst < now))
    THEN [phase |-> "buffering", at |-> now]
    ELSE IF nst > 0 /\ nst < now
    THEN IF track = "under" THEN [phase |-> "recovering", at |-> now] ELSE EpisodeOver
    ELSE episode

\* the gain the mute state asks for: state.isMuted ? 0 : 1
MuteGain(s) == IF s.isMuted THEN 0 ELSE 1

\* the timers of ts that run before a timer armed now and due at `due`: a
\* timer runs when it is due, the earlier armed first among those due together
Before(ts, due) == SelectSeq(ts, LAMBDA t : t.due <= due)
After(ts, due) == SelectSeq(ts, LAMBDA t : t.due > due)

\* a setTimeout whose delay is taken as 0
ArmAtOnce(ts, kind, ms) ==
    Before(ts, clock) \o <<[kind |-> kind, due |-> clock]>> \o After(ts, clock)

\* setTimeout(callback, ms): due after the whole seconds of the delay
Arm(ts, kind, ms) ==
    LET due == clock + (ms \div msPerSecond)
    IN  Before(ts, due) \o <<[kind |-> kind, due |-> due]>> \o After(ts, due)

PromotionPending == \E i \in 1..Len(timers) : timers[i].kind = "promote"

\* open remote sessions: the one held, if it is open, and the leaked ones
LiveHandles == (IF session = "live" THEN 1 ELSE 0) + leaked

\* the first-chunk-or-underrun test and the underrun test of the scheduler
NeedsPreroll(nst, now) == nst = 0 \/ nst < now
IsUnderrun(nst, now) == nst > 0 /\ nst < now

\* a scheduler that starts the first chunk at once, without pre-roll
PrerollNoBuffer(now) == now

\* the cursor after a pre-roll
Preroll(now) == now + bufferTime

\* a scheduler that forgets to advance the cursor
AdvanceStuck(nst, d) == nst

\* a scheduler that moves the cursor back by the duration
AdvanceBack(nst, d) == nst - d

\* the cursor after a buffer of duration d was scheduled at it
Advance(nst, d) == nst + d

\* the guards of the public operations and callbacks
AlreadyConnected(s) == s # "none"
\* a play() that only checks for a session
PlayReturnsNoSession(s, p) == s = "none"
PlayReturns(s, p) == s = "none" \/ p = "playing" \/ p = "loading"
\* a pause() that only checks for a session
PauseReturnsNoSession(s, p) == s = "none"
PauseReturns(s, p) == s = "none" \/ p = "paused" \/ p = "stopped"
StopReturns(s) == s = "none"
\* a handler that drops chunks only when stopped
ChunkDiscardedWhenStopped(p) == p = "stopped"
ChunkDiscarded(p) == p = "paused" \/ p = "stopped"
\* a promotion timer that never promotes
PromoteNever(p) == FALSE
\* a promotion timer that does not re-check the state
PromoteAlways(p) == TRUE
PromoteGuard(p) == p = "loading"
\* a setPrompts() that ignores the connection error flag
PromptsReturnNoSession(s, err) == s = "none"
PromptsReturn(s, err) == s = "none" \/ err

\* fade timers that all end in paused
FadeTargetPaused(kind) == "paused"

\* the state a fade timer sets when it fires
FadeTarget(kind) == IF kind = "pauseFade" THEN "paused" ELSE "stopped"

\* the context held is missing or closed
NoContext == ~audioContext \/ closing = "closed"

\* the guard of the class variant of the service (LyriaService), whose
\* context and output node may be null: no context or no output node is held
NoOutput == ~audioContext \/ outputNode = 0

\* initAudioContext: creates the context and the output node, unless a
\* context that is not closed exists
InitAudioContext ==
    IF NoContext
    THEN /\ audioContext' = TRUE
         /\ outputNode' = outputNode + 1
         /\ gain' = MuteGain(state)
         /\ closing' = IF closing = "closed" THEN "replaced" ELSE closing
    ELSE UNCHANGED <<audioContext, outputNode, gain, closing>>

\* the body of connect(); run by connect() and by play() on a connection error
ConnectBody ==
    IF ~apiKey
    THEN /\ connectionError' = TRUE
         /\ UNCHANGED <<pending, audioContext, outputNode, gain, closing>>
    ELSE IF AlreadyConnected(session)
    THEN UNCHANGED <<connectionError, pending, audioContext, outputNode, gain, closing>>
    ELSE /\ pending + LiveHandles < MaxSessions
         /\ InitAudioContext
         /\ pending' = pending + 1
         /\ UNCHANGED connectionError

\* the body of pause(); run by pause() and by a rejected setPrompts()
PauseBody ==
    IF PauseReturns(session, state.playbackState)
    THEN UNCHANGED <<sent, nextStartTime, gain, timers, haltedInLoading, episode>>
    ELSE /\ Len(timers) < MaxTimers
         /\ episode' = EpisodeOver
         /\ sent' = "pause"
         /\ nextStartTime' = 0
         /\ gain' = 0
         /\ timers' = Arm(timers, "pauseFade", fadeMs)
         /\ haltedInLoading' =
              (haltedInLoading \/ (track = "halt" /\ state.playbackState = "loading"
                                                  /\ PromotionPending))

\* the body of stop(); run by stop() and by the onerror and onclose callbacks
StopBody ==
    IF StopReturns(session)
    THEN UNCHANGED <<sent, nextStartTime, gain, timers, stopCalled, haltedInLoading,
                     episode>>
    ELSE /\ Len(timers) < MaxTimers
         /\ episode' = EpisodeOver
         /\ sent' = "stop"
         /\ nextStartTime' = 0
         /\ gain' = 0
         /\ timers' = Arm(timers, "stopFade", fadeMs)
         /\ stopCalled' = (track = "halt")
         /\ haltedInLoading' =
              (haltedInLoading \/ (track = "halt" /\ state.playbackState = "loading"
                                                  /\ PromotionPending))

\* ----------------------------------------------------------------- actions

Connect ==
    /\ ConnectBody
    /\ UNCHANGED <<heard, episode>>
    /\ UNCHANGED <<aside, nodes, apiKey, session, leaked, nextStartTime, state, timers, clock, last, run,
                   sent, promptsPending, stopCalled, haltedInLoading>>

\* the remote open succeeds: connect() resumes after its await and overwrites
\* the handle
ConnectOpen ==
    /\ pending > 0
    /\ session' = "live"
    /\ leaked' = IF session = "live" THEN leaked + 1 ELSE leaked
    /\ connectionError' = FALSE
    /\ pending' = pending - 1
    /\ UNCHANGED <<heard, episode>>
    /\ UNCHANGED <<aside, closing, nodes, apiKey, audioContext, outputNode, gain, nextStartTime, state,
                   timers, clock, last, run, sent, promptsPending, stopCalled,
                   haltedInLoading>>

\* the remote open fails: the catch branch of connect()
ConnectFail ==
    /\ pending > 0
    /\ connectionError' = TRUE
    /\ UpdateState(WithPlayback(state, "stopped"))
    /\ episode' = EpisodeOver
    /\ pending' = pending - 1
    /\ UNCHANGED <<aside, closing, nodes, apiKey, session, leaked, audioContext, outputNode, gain,
                   nextStartTime, timers, clock, last, run, sent, promptsPending,
                   stopCalled, haltedInLoading>>

Play ==
    /\ IF PlayReturns(session, state.playbackState)
       THEN UNCHANGED <<connectionError, pending, audioContext, outputNode, gain,
                        closing, sent, state, heard, episode, stopCalled,
                        haltedInLoading>>
       ELSE IF connectionError
       THEN /\ ConnectBody
            /\ UNCHANGED <<sent, state, heard, episode, stopCalled, haltedInLoading>>
       ELSE \* initAudioContext(), then the gain is set from the mute state
            /\ audioContext' = TRUE
            /\ outputNode' = IF NoContext THEN outputNode + 1 ELSE outputNode
            /\ closing' = IF closing = "closed" THEN "replaced" ELSE closing
            /\ sent' = "play"
            /\ gain' = MuteGain(state)
            /\ UpdateState(WithPlayback(state, "loading"))
            /\ episode' = EpisodeAtPlay
            /\ stopCalled' = FALSE
            /\ haltedInLoading' = FALSE
            /\ UNCHANGED <<connectionError, pending>>
    /\ UNCHANGED <<aside, nodes, apiKey, session, leaked, nextStartTime, timers, clock, last, run,
                   promptsPending>>

Pause ==
    /\ PauseBody
    /\ UNCHANGED heard
    /\ UNCHANGED <<aside, closing, nodes, apiKey, session, pending, leaked, audioContext, outputNode,
                   connectionError, state, clock, last, run, promptsPending, stopCalled>>

Stop ==
    /\ StopBody
    /\ UNCHANGED heard
    /\ UNCHANGED <<aside, closing, nodes, apiKey, session, pending, leaked, audioContext, outputNode,
                   connectionError, state, clock, last, run, promptsPending>>

\* a toggleMute() that also halts playback
ToggleMuteHalts ==
    /\ audioContext
    /\ gain' = IF ~state.isMuted THEN 0 ELSE 1
    /\ UpdateState([playbackState |-> "paused", isMuted |-> ~state.isMuted])
    /\ UNCHANGED episode
    /\ UNCHANGED <<aside, closing, nodes, apiKey, session, pending, leaked, audioContext, outputNode,
                   nextStartTime, connectionError, timers, clock, last, run, sent,
                   promptsPending, stopCalled, haltedInLoading>>

ToggleMute ==
    /\ IF ~audioContext \/ outputNode = 0
       THEN UNCHANGED <<gain, state, heard>>
       ELSE /\ gain' = IF ~state.isMuted THEN 0 ELSE 1
            /\ UpdateState([state EXCEPT !.isMuted = ~state.isMuted])
    /\ UNCHANGED episode
    /\ UNCHANGED <<aside, closing, nodes, apiKey, session, pending, leaked, audioContext, outputNode,
                   nextStartTime, connectionError, timers, clock, last, run, sent,
                   promptsPending, stopCalled, haltedInLoading>>

SetPrompts ==
    /\ IF PromptsReturn(session, connectionError)
       THEN UNCHANGED promptsPending
       ELSE /\ promptsPending < MaxPrompts
            /\ promptsPending' = promptsPending + 1
    /\ UNCHANGED <<heard, episode>>
    /\ UNCHANGED <<aside, closing, nodes, apiKey, session, pending, leaked, audioContext, outputNode,
                   gain, nextStartTime, connectionError, state, timers, clock, last, run,
                   sent, stopCalled, haltedInLoading>>

\* the remote session accepts the prompts
PromptsOk ==
    /\ promptsPending > 0
    /\ promptsPending' = promptsPending - 1
    /\ UNCHANGED <<heard, episode>>
    /\ UNCHANGED <<aside, closing, nodes, apiKey, session, pending, leaked, audioContext, outputNode,
                   gain, nextStartTime, connectionError, state, timers, clock, last, run,
                   sent, stopCalled, haltedInLoading>>

\* a setPrompts() that only logs the rejection
PromptsFailIgnored ==
    /\ promptsPending > 0
    /\ promptsPending' = promptsPending - 1
    /\ UNCHANGED <<aside, closing, nodes, heard, episode, apiKey, session, pending, leaked,
                   audioContext, outputNode, gain, nextStartTime, connectionError,
                   state, timers, clock, last, run, sent, stopCalled,
                   haltedInLoading>>

\* the remote session rejects the prompts: the catch branch of setPrompts()
PromptsFail ==
    /\ promptsPending > 0
    /\ promptsPending' = promptsPending - 1
    /\ PauseBody
    /\ UNCHANGED heard
    /\ UNCHANGED <<aside, closing, nodes, apiKey, session, pending, leaked, audioContext, outputNode,
                   connectionError, state, clock, last, run, stopCalled>>

\* the playback node of a chunk of duration d handled now: connected to the
\* output node of the moment, started at the cursor
NewNode(d) ==
    [start |-> IF NeedsPreroll(nextStartTime, clock) THEN Preroll(clock)
                                                     ELSE nextStartTime,
     dur   |-> d,
     pre   |-> NeedsPreroll(nextStartTime, clock),
     out   |-> outputNode]

\* what is recorded of a scheduled buffer source: its interval and the output
\* node it is connected to
Routing(node) == [start |-> node.start, dur |-> node.dur, out |-> node.out]

\* the buffer sources of ns that have play time left at clock `now`
HasTimeLeft(ns, now) == {n \in ns : n.start + n.dur > now}

\* an underrun recovery that keeps the output node
RebuildKeepsNode(node) == node

\* the output node after the rebuild of an underrun recovery: a new GainNode
Rebuild(node) == node + 1

\* handleServerMessage for a message with audioChunks whose data decodes to a
\* buffer of duration d
ChunkOf(d) ==
    /\ LiveHandles > 0
    /\ IF ChunkDiscarded(state.playbackState) \/ NoOutput
       THEN UNCHANGED <<state, heard, episode, outputNode, gain, nextStartTime,
                        timers, last, run, nodes>>
       ELSE /\ Advance(NewNode(d).start, d) - clock <= MaxAhead
            /\ episode' = EpisodeAtChunk(nextStartTime, clock)
            /\ last' = NewNode(d)
            /\ nodes' = IF track # "nodes" THEN nodes
                        ELSE HasTimeLeft(nodes \cup {Routing(NewNode(d))}, clock)
            /\ run' = IF track # "run" THEN run
                      ELSE IF NewNode(d).pre THEN [at |-> clock, sum |-> d]
                      ELSE [run EXCEPT !.sum = @ + d]
            /\ IF NeedsPreroll(nextStartTime, clock)
               THEN /\ Len(timers) < MaxTimers
                    /\ IF IsUnderrun(nextStartTime, clock)
                       THEN /\ UpdateState(WithPlayback(state, "loading"))
                            /\ outputNode' = Rebuild(outputNode)
                            /\ gain' = MuteGain(state)
                       ELSE UNCHANGED <<state, heard, outputNode, gain>>
                    /\ timers' = Arm(timers, "promote", bufferTime * msPerSecond)
               ELSE UNCHANGED <<state, heard, outputNode, gain, timers>>
            /\ nextStartTime' = Advance(NewNode(d).start, d)
    /\ UNCHANGED <<aside, closing, apiKey, session, pending, leaked, audioContext,
                   connectionError, clock, sent, promptsPending, stopCalled,
                   haltedInLoading>>

\* handleServerMessage for a message with audioChunks that decodes to a buffer
Chunk == \E d \in Durations : ChunkOf(d)

\* a message handler that treats an undecodable chunk as a connection error
ChunkMalformedStops ==
    /\ LiveHandles > 0
    /\ connectionError' = TRUE
    /\ StopBody
    /\ UNCHANGED <<aside, closing, nodes, heard, apiKey, session, pending, leaked, audioContext,
                   outputNode, state, clock, last, run, promptsPending>>

\* handleServerMessage for a message whose audio chunk does not decode: the
\* exception leaves the handler before it has changed anything
ChunkMalformed ==
    /\ LiveHandles > 0
    /\ BadWires # {}
    /\ UNCHANGED vars

\* handleServerMessage for a setupComplete message
SetupComplete ==
    /\ LiveHandles > 0
    /\ connectionError' = FALSE
    /\ UNCHANGED <<heard, episode>>
    /\ UNCHANGED <<aside, closing, nodes, apiKey, session, pending, leaked, audioContext, outputNode,
                   gain, nextStartTime, state, timers, clock, last, run, sent,
                   promptsPending, stopCalled, haltedInLoading>>

\* the onerror / onclose callback of an open remote session, which ends that
\* session: the one held (held = TRUE) or a leaked one
Lost(held) ==
    /\ IF held
       THEN session = "live" /\ session' = "dead" /\ UNCHANGED leaked
       ELSE leaked > 0 /\ leaked' = leaked - 1 /\ UNCHANGED session
    /\ connectionError' = TRUE
    /\ StopBody
    /\ UNCHANGED heard
    /\ UNCHANGED <<aside, closing, nodes, apiKey, pending, audioContext, outputNode, state, clock, last, run,
                   promptsPending>>

ErrorEvent == \E held \in BOOLEAN : Lost(held)

CloseEvent == \E held \in BOOLEAN : Lost(held)

\* a setTimeout callback runs
TimerFire ==
    /\ timers # <<>>
    /\ Head(timers).due <= clock
    /\ timers' = Tail(timers)
    /\ IF Head(timers).kind = "promote"
       THEN /\ IF PromoteGuard(state.playbackState)
               THEN UpdateState(WithPlayback(state, "playing"))
               ELSE UNCHANGED <<state, heard>>
            /\ UNCHANGED gain
       ELSE /\ UpdateState(WithPlayback(state, FadeTarget(Head(timers).kind)))
            /\ gain' = IF NoOutput THEN gain ELSE 1
    /\ UNCHANGED episode
    /\ UNCHANGED <<aside, closing, nodes, apiKey, session, pending, leaked, audioContext, outputNode,
                   nextStartTime, connectionError, clock, last, run, sent, promptsPending,
                   stopCalled, haltedInLoading>>

\* time passes; a timer that is due runs before the clock moves on
Tick ==
    /\ \/ clock < MaxClock
       \/ episode.phase = "recovering" /\ clock < MaxClock + MaxRecovery
    /\ \A i \in 1..Len(timers) : timers[i].due > clock
    /\ clock' = clock + 1
    /\ nodes' = HasTimeLeft(nodes, clock + 1)
    /\ UNCHANGED <<heard, episode>>
    /\ UNCHANGED <<aside, closing, apiKey, session, pending, leaked, audioContext, outputNode,
                   gain, nextStartTime, connectionError, state, timers, last, run, sent,
                   promptsPending, stopCalled, haltedInLoading>>

Next ==
    \/ Connect
    \/ ConnectOpen
    \/ ConnectFail
    \/ SetPrompts
    \/ PromptsOk
    \/ PromptsFail
    \/ Play
    \/ Pause
    \/ Stop
    \/ ToggleMute
    \/ Chunk
    \/ ChunkMalformed
    \/ SetupComplete
    \/ ErrorEvent
    \/ CloseEvent
    \/ TimerFire
    \/ Tick

\* the behaviours in which no listener is registered
Spec == Init /\ [][Next]_vars

\* the same behaviours, with the first playback episode recorded
SpecPromo == InitTracking("promo") /\ [][Next]_vars

\* addStateListener(l): registers l and calls it with the current state
AddStateListener ==
    \E l \in Listeners :
        /\ listeners' = listeners \cup {l}
        /\ heard' = [heard EXCEPT ![l] = state]
        /\ UNCHANGED <<track, codec, closing, nodes, episode, apiKey, session, pending, leaked,
                       audioContext, outputNode, gain, nextStartTime, connectionError,
                       state, timers, clock, last, run, sent, promptsPending,
                       stopCalled, haltedInLoading>>

\* removeStateListener(l)
RemoveStateListener ==
    \E l \in Listeners :
        /\ listeners' = listeners \ {l}
        /\ heard' = [heard EXCEPT ![l] = NoSnapshot]
        /\ UNCHANGED <<track, codec, closing, nodes, episode, apiKey, session, pending, leaked,
                       audioContext, outputNode, gain, nextStartTime, connectionError,
                       state, timers, clock, last, run, sent, promptsPending,
                       stopCalled, haltedInLoading>>

NextListen ==
    \/ Next
    \/ AddStateListener
    \/ RemoveStateListener

\* the behaviours with listeners registered and removed
SpecListen == Init /\ [][NextListen]_vars

\* the decodeAudioData call is made
DecodeAudioData ==
    /\ ~codec.out.done
    /\ codec' = [codec EXCEPT !.out = decodeAudioData(BinaryString(codec.raw, codec.stray),
                                                      codec.numChannels)]
    /\ UNCHANGED <<track, listeners, heard, closing, nodes, episode, apiKey, session, pending, leaked,
                   audioContext, outputNode, gain, nextStartTime, connectionError,
                   state, timers, clock, last, run, sent, promptsPending,
                   stopCalled, haltedInLoading>>

NextDecode == DecodeAudioData

\* the chunk decoder alone, on every input within the bounds
SpecDecode == InitDecode /\ [][NextDecode]_vars

\* a disconnect() that releases the session and the context without stop()
DisconnectNoStop ==
    /\ closing = "no"
    /\ outputNode < MaxNodes
    /\ session' = "none"
    /\ leaked' = IF session = "live" THEN leaked + 1 ELSE leaked
    /\ closing' = IF audioContext THEN "closed" ELSE "no"
    /\ UNCHANGED <<aside, nodes, heard, episode, apiKey, pending, audioContext, outputNode,
                   gain, nextStartTime, connectionError, state, timers, clock, last,
                   run, sent, promptsPending, stopCalled, haltedInLoading>>

\* disconnect() of the class variant of the service (LyriaService), up to its
\* call of audioContext.close(): stop() if a session is held, then the handle
\* is dropped (the remote session is not closed), then the context is closed.
\* A call made while an earlier one awaits close() is left out.
Disconnect ==
    /\ closing = "no"
    /\ outputNode < MaxNodes
    /\ StopBody
    /\ session' = "none"
    /\ leaked' = IF session = "live" THEN leaked + 1 ELSE leaked
    /\ closing' = IF audioContext THEN "closed" ELSE "no"
    /\ UNCHANGED heard
    /\ UNCHANGED <<aside, nodes, apiKey, pending, audioContext, outputNode, connectionError,
                   state, clock, last, run, promptsPending>>

\* audioContext.close() has resolved: disconnect() resumes and drops the
\* context it holds
DisconnectClosed ==
    /\ closing # "no"
    /\ audioContext' = FALSE
    /\ closing' = "no"
    /\ UNCHANGED <<aside, nodes, heard, episode, apiKey, session, pending, leaked, outputNode,
                   gain, nextStartTime, connectionError, state, timers, clock, last,
                   run, sent, promptsPending, stopCalled, haltedInLoading>>

NextDisconnect ==
    \/ Next
    \/ Disconnect
    \/ DisconnectClosed

\* the behaviours with disconnect() among the calls
SpecDisconnect == Init /\ [][NextDisconnect]_vars

\* handleServerMessage for a message whose audio chunk holds no complete
\* frame: if the decoder yields a buffer it is scheduled as a chunk of
\* duration 0, and if the decoder throws the handler is left at once
ChunkZeroFrames ==
    /\ ZeroFrameWires # {}
    /\ IF \A str \in ZeroFrameWires : ~HandlerDecodes(str)
       THEN LiveHandles > 0 /\ UNCHANGED vars
       ELSE ChunkOf(0)

NextZero ==
    \/ Next
    \/ ChunkZeroFrames

\* the behaviours with chunks of no complete frame among the messages
SpecZero == Init /\ [][NextZero]_vars

\* the same behaviours, with the scheduled buffer sources recorded
SpecNodes == InitTracking("nodes") /\ [][Next]_vars

\* the same behaviours, with the recovery from the latest underrun recorded
SpecUnder == InitTracking("under") /\ [][Next]_vars

\* the same behaviours, with the latest playback episode recorded
SpecStale == InitTracking("stale") /\ [][Next]_vars

\* the same behaviours, with the history of the current run of chunks recorded
SpecRun == InitTracking("run") /\ [][Next]_vars

\* the same behaviours, with the history of pause() and stop() calls recorded
SpecHalt == InitTracking("halt") /\ [][Next]_vars

\* ------------------------------------------------------------------ claims

ps == state.playbackState

\* C1 (SpecRun): gapless scheduling.  In a run of chunks handled with no
\* pause()/stop() in between and none arriving after the cursor, the chunk
\* scheduled last starts at (clock time of the run's first chunk + bufferTime +
\* the durations of the chunks before it), so the intervals are contiguous.
C1_Gapless ==
    last.start >= 0 => last.start = run.at + bufferTime + (run.sum - last.dur)

\* three one-second chunks scheduled back to back: T+2, T+3, T+4
C1_Witness ==
    /\ run.sum = 3
    /\ last.dur = 1
    /\ ~last.pre
    /\ last.start = run.at + bufferTime + 2

\* C2 (Spec): underrun recovery.  A chunk handled in loading or playing when
\* nextStartTime > 0 and the clock is past nextStartTime sets the state to
\* loading in that step, is scheduled at clock + bufferTime, and leaves
\* nextStartTime at clock + bufferTime + its duration.
C2_UnderrunRecovery ==
    [][(Chunk /\ ps \in {"loading", "playing"}
              /\ nextStartTime > 0 /\ clock > nextStartTime)
         => /\ state'.playbackState = "loading"
            /\ last'.start = clock + bufferTime
            /\ nextStartTime' = clock + bufferTime + last'.dur]_vars

\* the state right after an underrun: the output node was rebuilt and the
\* chunk waits bufferTime ahead of the clock
C2_Witness ==
    /\ outputNode = 2
    /\ last.out = 1
    /\ ps = "loading"
    /\ last.start = clock + bufferTime
    /\ nextStartTime = clock + bufferTime + last.dur

\* C3 (SpecHalt): stop() always results in stopped.  Once stop() ran and the
\* pending timers have fired, the state is stopped, if no play() came after.
C3_StopEndsStopped ==
    (stopCalled /\ timers = <<>>) => ps = "stopped"

\* C4 (Spec): from stopped, only play() on a connected controller leaves for
\* loading, nothing moves a stopped controller to playing, and playing is
\* only ever entered from loading.
C4_StoppedClosure ==
    [][/\ (ps = "stopped" /\ state'.playbackState \in {"loading", "playing"})
            => /\ state'.playbackState = "loading"
               /\ Play
               /\ session # "none"
               /\ ~connectionError
               /\ sent' = "play"
       /\ (ps # "playing" /\ state'.playbackState = "playing") => ps = "loading"]_vars

\* playing reached after connect(), play() and the pre-roll of a chunk
C4_Witness ==
    /\ ps = "playing"
    /\ session = "live"
    /\ sent = "play"
    /\ last.start >= 0

\* C5 (Spec): idempotent connect.  At no time does more than one open remote
\* session exist.
C5_OneLiveHandle == LiveHandles <= 1

\* C6 (SpecHalt): a pause()/stop() issued in the pre-roll window is not
\* overridden by the promotion timer: until the next play() the state is
\* never playing.
C6_HaltNotOverridden == haltedInLoading => ps # "playing"

\* C7 (Spec): toggleMute() changes nothing but isMuted and the gain target:
\* not playbackState, nextStartTime, connectionError, the session handle, nor
\* anything sent to the remote session.
C7_MuteIndependence ==
    [][ToggleMute
         => /\ state'.playbackState = ps
            /\ UNCHANGED <<nextStartTime, connectionError, session, pending, leaked,
                           sent, promptsPending, timers, last, outputNode,
                           audioContext, clock>>]_vars

\* muted while playing
C7_Witness ==
    /\ state.isMuted
    /\ gain = 0
    /\ ps = "playing"

\* C8 (Spec): a chunk message arriving in paused or stopped is discarded: no
\* node is scheduled, no timer is armed, nextStartTime and MusicState stay.
C8_ChunkDiscarded ==
    [][(Chunk /\ ps \in {"paused", "stopped"})
         => UNCHANGED <<last, timers, nextStartTime, state, outputNode, gain>>]_vars

\* paused with the remote session still open, so that late chunks arrive
C8_Witness ==
    /\ ps = "paused"
    /\ LiveHandles > 0
    /\ sent = "pause"
    /\ last.start >= 0

\* a play() call that opens a new remote session
PlayReconnects == Play /\ pending' = pending + 1

\* C9 (Spec): after a remote error or close has set connectionError, the next
\* play() call opens a new remote session.
C9_PlayReconnects ==
    (/\ connectionError
     /\ session = "dead"
     /\ apiKey
     /\ ps \in {"stopped", "paused"}
     /\ pending + LiveHandles < MaxSessions)
        => ENABLED PlayReconnects

\* C10 (Spec): a remote error or close sets connectionError and applies
\* stop(): the remote stop is sent, nextStartTime is reset to 0, the stop fade
\* timer is armed, and when that timer fires the state becomes stopped.
C10_LostStops ==
    [][/\ (ErrorEvent \/ CloseEvent)
            => /\ connectionError'
               /\ sent' = "stop"
               /\ nextStartTime' = 0
               /\ Len(timers') = Len(timers) + 1
               /\ \E i \in 1..Len(timers') :
                      timers'[i] = [kind |-> "stopFade", due |-> clock]
       /\ (TimerFire /\ Head(timers).kind = "stopFade")
            => state'.playbackState = "stopped"]_vars

\* stopped by a remote error or close after playback had started
C10_Witness ==
    /\ connectionError
    /\ session = "dead"
    /\ ps = "stopped"
    /\ sent = "stop"
    /\ last.start >= 0

\* C11 (SpecListen): every registered listener holds, as the snapshot it was
\* called with last, the current MusicState (addStateListener replays the
\* state, every mutation calls all registered listeners with the complete
\* snapshot), and a listener that is not registered has been called with
\* nothing since its removal.
C11_ListenersCurrent ==
    \A l \in Listeners :
        heard[l] = IF l \in listeners THEN state ELSE NoSnapshot

\* two listeners registered, one of them removed again, and the state
\* mutated since: the remaining one holds the muted, playing snapshot
C11_Witness ==
    /\ listeners = {"a"}
    /\ heard["a"] = [playbackState |-> "playing", isMuted |-> TRUE]
    /\ heard["b"] = NoSnapshot
    /\ last.start >= 0

\* the frames the samples of the call fill completely
Frames == Len(codec.raw) \div codec.numChannels

\* the decoded channels hold, for each channel c and frame i, the sample
\* raw[i * numChannels + c] / 32768 (frames counted from 0, as in the code),
\* each channel has n frames, and every value lies in [-1, 1]
Deinterleaved(n) ==
    /\ codec.out.ok
    /\ Len(codec.out.data) = codec.numChannels
    /\ \A c \in 1..codec.numChannels :
          /\ Len(codec.out.data[c]) = n
          /\ \A i \in 1..n :
                LET v == codec.out.data[c][i]
                IN  /\ v.num * int16Scale = codec.raw[(i - 1) * codec.numChannels + c] * v.den
                    /\ -v.den <= v.num
                    /\ v.num <= v.den

\* the input is N * channelCount samples and nothing else
WholeFrames == codec.stray = 0 /\ Len(codec.raw) = Frames * codec.numChannels

C13_PartialFrameDropped ==
    (codec.out.done /\ ~WholeFrames) => Deinterleaved(Frames)

\* C14 (Spec): a chunk whose decoding fails in loading or playing is dropped
\* alone: playbackState, nextStartTime, connectionError, the scheduled nodes,
\* the timers and the session are unchanged and nothing is sent, so later
\* chunks are scheduled as if it had never arrived.
C14_BadChunkDropped ==
    [][(ChunkMalformed /\ ps \in {"loading", "playing"})
         => UNCHANGED <<state, heard, nextStartTime, connectionError, last, timers,
                        session, leaked, sent, outputNode, gain>>]_vars

\* playing with chunks scheduled ahead and the remote session open, where an
\* undecodable chunk can arrive
C14_Witness ==
    /\ ps = "playing"
    /\ nextStartTime > clock
    /\ session = "live"
    /\ ENABLED ChunkMalformed
    /\ ~HandlerDecodes(<<Sextet(0)>>)
    /\ HandlerDecodes(<<Sextet(63), Sextet(63), Sextet(63), Sextet(63), Sextet(63),
                         Sextet(48), Pad, Pad>>)

\* C15 (SpecPromo): after the first play() of a freshly connected controller,
\* with the first chunk handled at clock T and no pause(), stop(), failure or
\* underrun since, the state is loading before T + bufferTime and playing
\* after it; at T + bufferTime it is loading until the promotion timer has
\* run and playing from then on.
C15_PromotedAtPreroll ==
    episode.phase = "buffering" =>
        IF clock < episode.at + bufferTime THEN ps = "loading"
        ELSE IF clock > episode.at + bufferTime THEN ps = "playing"
        ELSE ps = IF PromotionPending THEN "loading" ELSE "playing"

\* promoted: first chunk at T = 1, playing at T + 2
C15_Witness ==
    /\ episode = [phase |-> "buffering", at |-> 1]
    /\ clock = 1 + bufferTime
    /\ ps = "playing"
    /\ ~PromotionPending

\* C16 (Spec): when the remote session rejects setWeightedPrompts in loading
\* or playing, pause() is applied: the remote pause is sent, nextStartTime is
\* reset to 0, the pause fade timer is armed, and when that timer fires the
\* state becomes paused; the rejection is consumed by setPrompts.
C16_RejectedPromptsPause ==
    [][/\ (PromptsFail /\ ps \in {"loading", "playing"})
            => /\ sent' = "pause"
               /\ nextStartTime' = 0
               /\ promptsPending' = promptsPending - 1
               /\ Len(timers') = Len(timers) + 1
               /\ \E i \in 1..Len(timers') :
                      timers'[i] = [kind |-> "pauseFade", due |-> clock]
       /\ (TimerFire /\ Head(timers).kind = "pauseFade")
            => state'.playbackState = "paused"]_vars

\* a rejection about to arrive in playing, where it pauses the remote session
C16_Witness ==
    /\ promptsPending > 0
    /\ ps = "playing"
    /\ nextStartTime > 0
    /\ ENABLED (PromptsFail /\ sent' = "pause" /\ nextStartTime' = 0)

\* C17 (Spec): setPrompts forwards the prompts only when a session handle
\* exists and connectionError is false; otherwise it calls nothing and leaves
\* playbackState, isMuted and nextStartTime unchanged.
C17_PromptsGuarded ==
    [][SetPrompts
         => /\ (promptsPending' # promptsPending
                   => session # "none" /\ ~connectionError)
            /\ ((session = "none" \/ connectionError)
                   => UNCHANGED <<promptsPending, state, nextStartTime, sent, timers,
                                  gain>>)]_vars

\* prompts were forwarded, then the session was lost: a further setPrompts
\* finds a handle and the connection error flag
C17_Witness ==
    /\ promptsPending = 1
    /\ connectionError
    /\ session = "dead"

\* a toggleMute() call that flips isMuted
ToggleMuteFlips == ToggleMute /\ state'.isMuted = ~state.isMuted

\* C18 (Spec): in every reachable state, also before connect() has created
\* the audio context, toggleMute() flips isMuted.
C18_ToggleFlips == ENABLED ToggleMuteFlips

\* C19 (SpecListen): play() in playing or loading is a no-op: nothing is sent,
\* MusicState, nextStartTime and the gain are unchanged, no listener is
\* called, no connection is attempted.
C19_PlayNoOp ==
    [][(Play /\ ps \in {"playing", "loading"})
         => UNCHANGED <<sent, state, heard, nextStartTime, gain, pending,
                        connectionError, audioContext, outputNode, timers>>]_vars

\* playing on an open session with both listeners registered
C19_Witness ==
    /\ ps = "playing"
    /\ session = "live"
    /\ listeners = {"a", "b"}
    /\ sent = "play"

\* C20 (Spec): pause() in paused or stopped is a no-op: no remote pause is
\* sent, no fade timer is armed, nextStartTime, the gain and MusicState are
\* unchanged.
C20_PauseNoOp ==
    [][(Pause /\ ps \in {"paused", "stopped"})
         => UNCHANGED <<sent, timers, nextStartTime, gain, state, heard>>]_vars

\* paused after playback, the fade timer done, the session still open
C20_Witness ==
    /\ ps = "paused"
    /\ session = "live"
    /\ sent = "pause"
    /\ timers = <<>>
    /\ gain = 1

\* C21 (SpecListen): when the remote open fails, connect() leaves the state
\* stopped, connectionError true and no session handle, and every registered
\* listener has been called with that snapshot.
C21_ConnectFailure ==
    [][ConnectFail
         => /\ state'.playbackState = "stopped"
            /\ connectionError'
            /\ session' = "none"
            /\ \A l \in listeners : heard'[l] = state']_vars

\* C22 (SpecDisconnect): disconnect() performs stop() before it releases the
\* audio context: the step that closes the context has, when a session was
\* held, sent the remote stop, reset nextStartTime to 0 and armed the stop
\* fade timer, and it clears the session handle; the context is dropped only
\* by the later step that follows close(); when the stop fade timer fires
\* the state becomes stopped.
C22_DisconnectStopsFirst ==
    [][/\ Disconnect
            => /\ session' = "none"
               /\ audioContext' = audioContext
               /\ audioContext => closing' = "closed"
               /\ session # "none"
                    => /\ sent' = "stop"
                       /\ nextStartTime' = 0
                       /\ \E i \in 1..Len(timers') :
                              timers'[i] = [kind |-> "stopFade", due |-> clock]
       /\ DisconnectClosed => (closing # "no" /\ ~audioContext')
       /\ (TimerFire /\ Head(timers).kind = "stopFade" /\ session = "none")
            => state'.playbackState = "stopped"]_vars

\* disconnected while playing: the remote stop was sent, the cursor reset and
\* the fade timer has set the state to stopped; the handle and the context
\* are gone
C22_Witness ==
    /\ session = "none"
    /\ ~audioContext
    /\ closing = "no"
    /\ sent = "stop"
    /\ nextStartTime = 0
    /\ ps = "stopped"
    /\ last.start >= 0
    /\ timers = <<>>

\* C23 (Spec): a control call sees the fully updated state of the call before
\* it: when a pause() or stop() that acted has returned, playbackState is
\* already paused, respectively stopped, so that a play() issued right after
\* it starts a new episode.
C23_CallsSeeUpdatedState ==
    [][/\ (Pause /\ ~PauseReturns(session, ps)) => state'.playbackState = "paused"
       /\ (Stop /\ ~StopReturns(session)) => state'.playbackState = "stopped"]_vars

\* a connect() call that opens a new remote session
ConnectOpensSession == Connect /\ pending' = pending + 1

\* a fade timer of stop() is pending
StopFadePending == \E i \in 1..Len(timers) : timers[i].kind = "stopFade"

\* C24 (Spec): stop() and a remote error or close destroy the session handle:
\* once stop() has completed (its remote stop was the last command sent and
\* its fade timer has fired) no session handle is held, and a following
\* connect() opens a new remote session.
C24_HandleDestroyed ==
    (sent = "stop" /\ ~StopFadePending)
        => /\ session = "none"
           /\ (apiKey /\ pending + LiveHandles < MaxSessions)
                => ENABLED ConnectOpensSession

\* C25 (Spec): whenever playbackState is loading or playing and a chunk has
\* been scheduled, nextStartTime is at or after the finish time (start +
\* duration) of the chunk scheduled last.
C25_CursorCoversLast ==
    (ps \in {"loading", "playing"} /\ last.start >= 0)
        => nextStartTime >= last.start + last.dur

\* C26 (Spec): nextStartTime never decreases except by the reset to 0 of
\* pause() and stop() (called directly, by a rejected setPrompts() or by the
\* onerror/onclose callbacks): handling a chunk leaves it at or above its
\* previous value, and play, toggleMute, setPrompts, connect and its
\* outcomes, the timers and the passing of time leave it unchanged.
C26_CursorMonotonic ==
    [][/\ Chunk => nextStartTime' >= nextStartTime
       /\ nextStartTime' < nextStartTime
            => /\ nextStartTime' = 0
               /\ Pause \/ Stop \/ PromptsFail \/ ErrorEvent \/ CloseEvent
       /\ (Play \/ ToggleMute \/ SetPrompts \/ PromptsOk \/ Connect \/ ConnectOpen
             \/ ConnectFail \/ SetupComplete \/ ChunkMalformed \/ TimerFire \/ Tick)
            => UNCHANGED nextStartTime]_vars

\* a chunk appended while playing: the cursor moved up from the start of
\* that chunk to its finish, ahead of the clock
C26_Witness ==
    /\ ps = "playing"
    /\ ~last.pre
    /\ last.start > bufferTime
    /\ nextStartTime = last.start + last.dur
    /\ nextStartTime > clock

\* C27 (Spec): the cursor is reset at every pause() and stop(): whenever
\* playbackState is paused or stopped, nextStartTime is 0, so that the first
\* chunk after the next play() is scheduled with a pre-roll and is never
\* taken for an underrun.
C27_CursorResetWhenHalted ==
    ps \in {"paused", "stopped"} => nextStartTime = 0

\* C28 (SpecStale): after a play() that moved the state to loading, the state
\* is playing only when a chunk has been scheduled since that play() and
\* bufferTime has elapsed since the first such chunk; a promotion timer left
\* from an earlier episode does not promote the new one.
C28_NoStalePromotion ==
    ps = "playing"
        => /\ episode.phase = "buffering"
           /\ clock >= episode.at + bufferTime

\* a chunk handled as an underrun
UnderrunChunk ==
    /\ Chunk
    /\ ~ChunkDiscarded(ps)
    /\ IsUnderrun(nextStartTime, clock)

\* C29 (SpecUnder): an underrun is transient and no error.  With the
\* underrun detected at clock U and no pause(), stop(), failure or further
\* underrun since, the state is loading before U + bufferTime and playing
\* after it; at U + bufferTime it is loading until the promotion timer has
\* run and playing from then on.  The step that handles the underrun sets
\* the state to loading and leaves connectionError unchanged.
C29_UnderrunTransient ==
    /\ [](episode.phase = "recovering" =>
            IF clock < episode.at + bufferTime THEN ps = "loading"
            ELSE IF clock > episode.at + bufferTime THEN ps = "playing"
            ELSE ps = IF PromotionPending THEN "loading" ELSE "playing")
    /\ [][UnderrunChunk
            => /\ state'.playbackState = "loading"
               /\ UNCHANGED <<connectionError, session, sent>>]_vars

\* playing again, bufferTime after the underrun was detected
C29_Witness ==
    /\ episode.phase = "recovering"
    /\ clock = episode.at + bufferTime
    /\ ps = "playing"
    /\ ~PromotionPending
    /\ ~connectionError

\* the fade timer of a pause() or of a stop() runs
PauseFadeFires == TimerFire /\ Head(timers).kind = "pauseFade"
StopFadeFires == TimerFire /\ Head(timers).kind = "stopFade"

\* C30 (Spec): pause() called in loading or playing sends the remote pause,
\* resets nextStartTime to 0 and arms the fade timer at once and leaves
\* MusicState unchanged; when the fade timer fires the state becomes paused
\* and the gain is set to full; the state then stays paused until a play() or
\* the fade timer of a stop().
C30_PausedUntilPlayOrStop ==
    [][/\ (Pause /\ ps \in {"loading", "playing"})
            => /\ sent' = "pause"
               /\ nextStartTime' = 0
               /\ gain' = 0
               /\ UNCHANGED state
               /\ \E i \in 1..Len(timers') :
                      timers'[i] = [kind |-> "pauseFade", due |-> clock]
       /\ PauseFadeFires => (state'.playbackState = "paused" /\ gain' = 1)
       /\ (ps = "paused" /\ state'.playbackState # "paused")
            => (Play \/ StopFadeFires)]_vars

\* C31 (SpecZero): a chunk of zero frames is a no-op for the scheduler: it
\* leaves nextStartTime, MusicState, the timers and the scheduled nodes
\* unchanged, so it arms no promotion timer and cannot lead from loading to
\* playing.  (The decoder yields no buffer for it: createBuffer rejects a
\* length of 0 and the handler is left before it has changed anything.)
C31_ZeroFrameNoOp ==
    [][ChunkZeroFrames
         => UNCHANGED <<nextStartTime, state, heard, timers, last, outputNode, gain,
                        connectionError, sent>>]_vars

\* loading after play() with nothing scheduled and no promotion timer, the
\* remote session open: a chunk of zero frames (an empty text, or one sample
\* of a stereo frame) can arrive here
C31_Witness ==
    /\ ps = "loading"
    /\ nextStartTime = 0
    /\ ~PromotionPending
    /\ session = "live"
    /\ ENABLED ChunkZeroFrames
    /\ <<>> \in ZeroFrameWires
    /\ <<Sextet(0), Sextet(0), Sextet(0), Pad>> \in ZeroFrameWires

\* the buffer source n is routed to the destination: it is connected to the
\* output node of the moment (an output node that was replaced has been
\* disconnected)
Routed(n) == n.out = outputNode

\* C32 (SpecNodes): on underrun recovery the output node is replaced by a
\* fresh one whose gain is set from isMuted, and no buffer source scheduled
\* before the underrun is routed to the destination any more.
C32_UnderrunFlushes ==
    [][UnderrunChunk
         => /\ outputNode' # outputNode
            /\ gain' = MuteGain(state')
            /\ last.out # outputNode'
            /\ \A n \in nodes : n.out # outputNode']_vars

\* after an underrun recovery while muted: the output node is the second one,
\* its gain is 0, and the source scheduled last is connected to the first
C32_Witness ==
    /\ outputNode = 2
    /\ state.isMuted
    /\ gain = 0
    /\ last.pre
    /\ last.out = 1
    /\ ps = "loading"

\* C33 (SpecNodes): in loading and playing every buffer source scheduled to
\* start in the future is connected to the output node of the moment; in
\* particular the chunk whose arrival triggers an underrun recovery is routed
\* to the output node that is live after the rebuild.
C33_FutureNodesRouted ==
    ps \in {"loading", "playing"}
        => \A n \in nodes : n.start > clock => Routed(n)

\* C34 (SpecNodes): once playbackState is paused or stopped, audio scheduled
\* before the pause() or stop() cannot be heard: no buffer source with play
\* time left is connected to the output node of the moment while the gain
\* target of that node is above 0.
C34_SilentWhenHalted ==
    ps \in {"paused", "stopped"}
        => ~ \E n \in nodes :
                /\ Routed(n)
                /\ n.start + n.dur > clock
                /\ gain > 0

\* Two buffer sources play at the same moment: their [start, start + dur)
\* intervals intersect.
Overlaps(a, b) == a.start < b.start + b.dur /\ b.start < a.start + a.dur

\* C35 (SpecNodes): across connect/play/pause/stop/chunk/timer events no two
\* buffer sources connected to the output node of the moment have overlapping
\* [start, start + duration) intervals: a chunk that is scheduled never
\* overlaps a source that still has play time left on the same live node,
\* including one scheduled before a pause() or stop().
C35_NoOverlap ==
    [][(Chunk /\ nextStartTime' # nextStartTime)
         => ~ \E n \in nodes :
                /\ n.out = outputNode'
                /\ last'.out = outputNode'
                /\ Overlaps(n, last')]_vars

\* C36 (Spec): whenever isMuted is true the gain target of the live output
\* node is 0: neither pause(), stop(), play(), the underrun rebuild nor the
\* creation of the audio context leaves a muted controller with a gain
\* target of 1.
C36_MutedIsSilent ==
    (state.isMuted /\ outputNode # 0) => gain = 0

\* a pause() or stop() fade timer is pending
FadePending ==
    \E i \in 1..Len(timers) : timers[i].kind \in {"pauseFade", "stopFade"}

\* C37 (Spec): local state and remote session agree: whenever no pause/stop
\* fade timer is pending, playbackState is loading or playing exactly when the
\* last control command sent to the remote session was play(), for every
\* interleaving of play(), pause() and stop() with the fade timers.
C37_LocalMatchesRemote ==
    ~FadePending
        => (ps \in {"loading", "playing"} <=> sent = "play")

\* C38 (Spec): once playbackState is stopped it changes only through play(),
\* to loading: no pending fade or promotion timer, chunk message,
\* toggleMute() or pause() call changes a stopped state to paused or playing.
C38_StoppedUntilPlay ==
    [][(ps = "stopped" /\ ps' # "stopped")
         => (Play /\ ps' = "loading")]_vars

====
